---- MODULE Spec2Model ----
(***************************************************************************)
(* Model of the statistical engine of the NLP Corpus Analyzer              *)
(* (src/main.py, class CorpusAnalyzer): tokenization, unigram and bigram   *)
(* frequency tables, raw and add-k smoothed probabilities with their       *)
(* lru_cache memoization, and sentence scoring.                            *)
(*                                                                         *)
(* A text is a sequence of one-character strings.  A token is a string.    *)
(* A number (Python int or float) is an exact rational <<n, d>> in lowest  *)
(* terms with d > 0; every value the program computes here is a quotient   *)
(* of small half-integers, which binary floating point orders and compares *)
(* the same way.                                                           *)
(***************************************************************************)
EXTENDS Integers, Sequences, FiniteSets, TLC

\* ------------------------------------------------------------------ bounds
\* longest text (file content, process_text argument) explored
MaxLen == 3
\* longest sentence typed into the test tab
MaxQueryLen == 1
\* number of operations in one explored run
MaxOps == 3

\* the characters texts are made of: a letter (upper case, as files hold
\* it before normalization), a sentence-final punctuation mark and a blank
Chars == {"A", ".", " "}

\* ------------------------------------------------------------ characters
\* str.lower() on one character
LowerChar(c) == IF c = "A" THEN "a" ELSE IF c = "B" THEN "b" ELSE c

\* \s of the re module, over the characters of the model
IsSpace(c) == c \in {" ", "\n"}

\* \w of the re module, over the characters of the model
IsWordChar(c) == c \in {"a", "b", "A", "B"}

\* the sentence-final characters of the punkt tokenizer
IsSentEnd(c) == c \in {".", "?", "!"}

\* str.lower()
Lower(t) == [i \in 1..Len(t) |-> LowerChar(t[i])]

\* number of leading whitespace characters of t
RECURSIVE LeadingSpaces(_)
LeadingSpaces(t) ==
    IF t = <<>> \/ ~IsSpace(Head(t)) THEN 0 ELSE 1 + LeadingSpaces(Tail(t))

\* str.rstrip()
RECURSIVE RStrip(_)
RStrip(t) ==
    IF t = <<>> \/ ~IsSpace(t[Len(t)]) THEN t ELSE RStrip(SubSeq(t, 1, Len(t) - 1))

\* str.strip()
Strip(t) ==
    LET r == RStrip(t) IN SubSeq(r, LeadingSpaces(r) + 1, Len(r))

\* re.sub(r"\n\s+", " ", t): a newline followed by at least one whitespace
\* character, together with the whole whitespace run, becomes one blank
RECURSIVE CollapseNewlines(_)
CollapseNewlines(t) ==
    IF t = <<>> THEN <<>>
    ELSE IF Head(t) = "\n" /\ LeadingSpaces(Tail(t)) > 0
         THEN <<" ">> \o CollapseNewlines(
                  SubSeq(t, 2 + LeadingSpaces(Tail(t)), Len(t)))
         ELSE <<Head(t)>> \o CollapseNewlines(Tail(t))

\* ------------------------------------------------------------- tokenizer
\* RegexpTokenizer(r"\w+").tokenize: the maximal runs of word characters,
\* in order; cur is the run being read, "" when none
RECURSIVE TokenizeFrom(_, _)
TokenizeFrom(t, cur) ==
    IF t = <<>> THEN (IF cur = "" THEN <<>> ELSE <<cur>>)
    ELSE IF IsWordChar(Head(t)) THEN TokenizeFrom(Tail(t), cur \o Head(t))
    ELSE (IF cur = "" THEN <<>> ELSE <<cur>>) \o TokenizeFrom(Tail(t), "")

Tokenize(t) == TokenizeFrom(t, "")

\* nltk.sent_tokenize: position i ends a sentence when t[i] is a
\* sentence-final character that is not part of an ellipsis and is followed
\* by whitespace and then another token
IsBreak(t, i) ==
    /\ IsSentEnd(t[i])
    /\ ~(i > 1 /\ t[i - 1] = ".")
    /\ i < Len(t)
    /\ IsSpace(t[i + 1])
    /\ LeadingSpaces(SubSeq(t, i + 1, Len(t))) < Len(t) - i

\* the sentences of t from position from on; each is a slice of t, the
\* whitespace between two sentences belongs to neither, the trailing
\* whitespace is cut and an empty last slice is dropped
RECURSIVE SentencesFrom(_, _, _)
SentencesFrom(t, from, i) ==
    IF i > Len(t)
    THEN LET last == SubSeq(t, from, Len(RStrip(t)))
         IN  IF last = <<>> THEN <<>> ELSE <<last>>
    ELSE IF IsBreak(t, i)
         THEN LET next == i + 1 + LeadingSpaces(SubSeq(t, i + 1, Len(t)))
              IN  <<SubSeq(t, from, i)>> \o SentencesFrom(t, next, next)
         ELSE SentencesFrom(t, from, i + 1)

SentTokenize(t) == SentencesFrom(t, 1, 1)

\* --------------------------------------------------------------- numbers
Abs(x) == IF x < 0 THEN -x ELSE x

RECURSIVE Gcd(_, _)
Gcd(a, b) == IF b = 0 THEN a ELSE Gcd(b, a % b)

\* the rational n/d (d # 0) in lowest terms with a positive denominator
Rat(n, d) ==
    LET g == Gcd(Abs(n), Abs(d))
        s == IF d < 0 THEN -1 ELSE 1
    IN  <<(s * n) \div g, (s * d) \div g>>

IntRat(n) == <<n, 1>>
RAdd(x, y) == Rat(x[1] * y[2] + y[1] * x[2], x[2] * y[2])
RMul(x, y) == Rat(x[1] * y[1], x[2] * y[2])
RDiv(x, y) == Rat(x[1] * y[2], x[2] * y[1])
RLess(x, y) == x[1] * y[2] < y[1] * x[2]
RIsZero(x) == x[1] = 0

\* self.smoothing_k = 0.5
smoothing_k == <<1, 2>>

\* what a call gives back: a value, or the exception it raises
Returned(v) == [ok |-> TRUE, val |-> v, exc |-> ""]
Raised(e) == [ok |-> FALSE, val |-> <<0, 1>>, exc |-> e]

\* x / y of Python: ZeroDivisionError when y is zero
PyDiv(x, y) == IF RIsZero(y) THEN Raised("ZeroDivisionError") ELSE Returned(RDiv(x, y))

\* ---------------------------------------------------------------- tables
Range(s) == {s[i] : i \in DOMAIN s}

\* a table that records only which elements occur, each with count 1: the
\* sums of C9 tell it from Counter
CounterOfPresence(s) == [k \in Range(s) |-> 1]

\* collections.Counter(s): every element of s with the number of its
\* occurrences
Counter(s) == [k \in Range(s) |-> Cardinality({i \in DOMAIN s : s[i] = k})]

\* Counter.__getitem__: a missing key counts 0 and is not inserted
CountOf(c, k) == IF k \in DOMAIN c THEN c[k] ELSE 0

\* the empty Counter and the empty dict
EmptyTable == [k \in {} |-> 0]

\* sum(c.values())
RECURSIVE SumOver(_, _)
SumOver(c, keys) ==
    IF keys = {} THEN 0
    ELSE LET k == CHOOSE x \in keys : TRUE
         IN  c[k] + SumOver(c, keys \ {k})

Total(c) == SumOver(c, DOMAIN c)

\* nltk.lm.preprocessing.pad_both_ends(words, n=2)
PadBothEnds(words) == <<"<s>">> \o words \o <<"</s>">>

\* nltk.bigrams: the consecutive pairs of s
Bigrams(s) == [i \in 1..(Len(s) - 1) |-> <<s[i], s[i + 1]>>]

\* one boundary pair whatever the number of sentences: the token stream of
\* C8 tells it from ["<s>", "</s>"] * n
SpecialTokensOnce(n) == IF n = 0 THEN <<>> ELSE <<"<s>", "</s>">>

\* ["<s>", "</s>"] * n
RECURSIVE SpecialTokens(_)
SpecialTokens(n) == IF n = 0 THEN <<>> ELSE <<"<s>", "</s>">> \o SpecialTokens(n - 1)

\* the two smoothing denominators, computed alike by process_text and by
\* calculate_statistics
Denominators(words, vocab) ==
    [unigram |-> RAdd(IntRat(Len(words)), RMul(smoothing_k, IntRat(Cardinality(vocab)))),
     bigram_base |-> RMul(smoothing_k, IntRat(Cardinality(vocab) - 2))]

\* the bigrams of every sentence without the padding: the per-context sums
\* of C19 tell it from process_bigrams
RECURSIVE AllBigramsUnpadded(_)
AllBigramsUnpadded(sents) ==
    IF sents = <<>> THEN <<>>
    ELSE Bigrams(Tokenize(Head(sents))) \o AllBigramsUnpadded(Tail(sents))

\* process_bigrams: the bigrams of every sentence, each sentence tokenized
\* on its own and padded
RECURSIVE AllBigrams(_)
AllBigrams(sents) ==
    IF sents = <<>> THEN <<>>
    ELSE Bigrams(PadBothEnds(Tokenize(Head(sents)))) \o AllBigrams(Tail(sents))

\* the data process_text(text) leaves in the analyzer
ProcessText(text) ==
    LET low == Lower(text)
        sents == SentTokenize(low)
        words == Tokenize(low) \o SpecialTokens(Len(sents))
        bgs == AllBigrams(sents)
    IN  [sentences |-> sents,
         all_words |-> words,
         unique_words |-> Range(words),
         word_occurrence |-> Counter(words),
         all_bigrams |-> bgs,
         unique_bigrams |-> Range(bgs),
         bigram_occurrence |-> Counter(bgs),
         denominator_cache |-> Denominators(words, Range(words))]

\* ---------------------------------------------------------- probabilities
\* In the operators below m is the analyzer's data: a record with the
\* fields of ProcessText.

\* get_unigram_prob(word)
UnigramProb(m, word) ==
    PyDiv(IntRat(CountOf(m.word_occurrence, word)), IntRat(Len(m.all_words)))

\* a raw bigram probability without the test for an unseen context: C16
\* tells it from get_bigram_prob
BigramProbUnguarded(m, bigram) ==
    IF Len(bigram) = 0 THEN Raised("IndexError")
    ELSE PyDiv(IntRat(CountOf(m.bigram_occurrence, bigram)),
               IntRat(CountOf(m.word_occurrence, bigram[1])))

\* get_bigram_prob(bigram); indexing an empty tuple raises IndexError, which
\* the except KeyError clause does not catch
BigramProb(m, bigram) ==
    IF Len(bigram) = 0 THEN Raised("IndexError")
    ELSE IF \/ bigram[1] \notin DOMAIN m.word_occurrence
            \/ m.word_occurrence[bigram[1]] = 0
         THEN Returned(IntRat(0))
         ELSE PyDiv(IntRat(CountOf(m.bigram_occurrence, bigram)),
                    IntRat(m.word_occurrence[bigram[1]]))

\* a smoothed unigram that adds k for the words of the vocabulary only, so
\* that an unseen word gets 0: C6 tells it from get_unigram_prob_smooth
UnigramProbSmoothSeenOnly(m, word) ==
    IF "unigram" \notin DOMAIN m.denominator_cache THEN Raised("KeyError")
    ELSE IF word \in m.unique_words
         THEN PyDiv(RAdd(IntRat(CountOf(m.word_occurrence, word)), smoothing_k),
                    m.denominator_cache["unigram"])
         ELSE PyDiv(IntRat(0), m.denominator_cache["unigram"])

\* the body of get_unigram_prob_smooth(word), behind its lru_cache
UnigramProbSmoothBody(m, word) ==
    IF "unigram" \notin DOMAIN m.denominator_cache THEN Raised("KeyError")
    ELSE IF word \in m.unique_words
         THEN PyDiv(RAdd(IntRat(CountOf(m.word_occurrence, word)), smoothing_k),
                    m.denominator_cache["unigram"])
         ELSE PyDiv(smoothing_k, m.denominator_cache["unigram"])

\* the body of get_bigram_prob_smooth(bigram), behind its lru_cache; the
\* KeyError of a missing denominator is caught and answered with 1
BigramProbSmoothBody(m, bigram) ==
    IF "bigram_base" \notin DOMAIN m.denominator_cache THEN Returned(IntRat(1))
    ELSE IF RIsZero(m.denominator_cache["bigram_base"]) THEN Returned(IntRat(0))
    ELSE IF Len(bigram) = 0 THEN Raised("IndexError")
    ELSE LET base == m.denominator_cache["bigram_base"]
             denominator == RAdd(IntRat(CountOf(m.word_occurrence, bigram[1])), base)
         IN  IF bigram \in DOMAIN m.bigram_occurrence
             THEN PyDiv(RAdd(IntRat(m.bigram_occurrence[bigram]), smoothing_k),
                        denominator)
             ELSE IF bigram[1] \in DOMAIN m.word_occurrence
                  THEN PyDiv(smoothing_k, denominator)
                  ELSE PyDiv(smoothing_k, base)

\* what get_bigram_prob_smooth prints while the keys of bgs are asked for
\* in order: the notice of its except branch, when a key that is not
\* memoized finds no denominator
BigramProbSmoothPrinted(m, bmemo, bgs) ==
    IF /\ "bigram_base" \notin DOMAIN m.denominator_cache
       /\ \E i \in DOMAIN bgs : bgs[i] \notin DOMAIN bmemo
    THEN "KeyError in get_bigram_prob_smooth"
    ELSE ""

\* functools.lru_cache: what a call with this key gives back, the stored
\* value on a hit and the body's outcome on a miss.  maxsize=1024 is larger
\* than every set of keys explored, so no entry is ever evicted.
MemoCall(memo, key, body) ==
    IF key \in DOMAIN memo THEN Returned(memo[key]) ELSE body

\* functools.lru_cache: the cache after that call; a value the body returns
\* is stored, an exception is not
MemoStore(memo, key, body) ==
    IF key \in DOMAIN memo \/ ~body.ok THEN memo
    ELSE [k \in DOMAIN memo \cup {key} |-> IF k = key THEN body.val ELSE memo[k]]

\* the cache after calls with every key of body, a table of the bodies'
\* outcomes per key; none of the calls changes the data the bodies read
MemoFill(memo, body) ==
    LET new == {k \in DOMAIN body : k \notin DOMAIN memo /\ body[k].ok}
    IN  [k \in DOMAIN memo \cup new |-> IF k \in DOMAIN memo THEN memo[k] ELSE body[k].val]

\* update_tab5: a memoized smoothed unigram query for every counted word
Tab5Memo(m, umemo) ==
    MemoFill(umemo, [w \in DOMAIN m.word_occurrence |-> UnigramProbSmoothBody(m, w)])

\* update_tab6 and update_tab7: a memoized smoothed bigram query for every
\* counted bigram and for every cell of the vocabulary x vocabulary matrix
Tab67Memo(m, bmemo) ==
    MemoFill(bmemo, [b \in DOMAIN m.bigram_occurrence \cup (m.unique_words \X m.unique_words)
                        |-> BigramProbSmoothBody(m, b)])

\* find_prob_of_sentence: the bigrams of the typed sentence
SentenceBigrams(string) == Bigrams(PadBothEnds(Tokenize(Lower(string))))

\* find_prob_of_sentence: the memoized queries for bgs in order, from the
\* running product prob and the trace so far; an exception ends the handler
RECURSIVE Score(_, _, _, _, _)
Score(m, bmemo, bgs, prob, trace) ==
    IF bgs = <<>> THEN [out |-> Returned(prob), trace |-> trace, memo |-> bmemo]
    ELSE LET body == BigramProbSmoothBody(m, Head(bgs))
             got == MemoCall(bmemo, Head(bgs), body)
             memo2 == MemoStore(bmemo, Head(bgs), body)
         IN  IF ~got.ok THEN [out |-> got, trace |-> <<>>, memo |-> memo2]
             ELSE Score(m, memo2, Tail(bgs), RMul(prob, got.val),
                        Append(trace, <<Head(bgs), got.val>>))

\* ---------------------------------------------------------------- inputs
\* all sequences over S of length at most n
RECURSIVE SeqsUpTo(_, _)
SeqsUpTo(S, n) ==
    IF n = 0 THEN {<<>>}
    ELSE LET shorter == SeqsUpTo(S, n - 1)
         IN  shorter \cup {Append(t, c) : t \in {u \in shorter : Len(u) = n - 1}, c \in S}

\* the texts a file holds or process_text is given
Texts == SeqsUpTo(Chars, MaxLen)

\* the sentences typed into the test tab
QueryStrings == SeqsUpTo(Chars, MaxQueryLen)

\* the tokens probability queries are made for
QueryWords == {"a", "b", "<s>", "</s>"}

\* tuples that are no bigram: of arity 0, 1 and 3
InvalidKeys == {<<>>, <<"a">>, <<"a", "a", "a">>}

\* the keys bigram probability queries are made for
QueryBigrams == (QueryWords \X QueryWords) \cup InvalidKeys

\* the paths the file dialog or a drop can deliver
Paths == {"corpus.txt", "notes.md"}

\* file_path.lower().endswith('.txt')
EndsWithTxt(path) == path \in {"corpus.txt"}

\* what the file system holds at a path when analyze_file reads it
Files ==
    {[exists |-> FALSE, readable |-> FALSE, content |-> <<>>],
     [exists |-> TRUE, readable |-> FALSE, content |-> <<>>]}
    \cup {[exists |-> TRUE, readable |-> TRUE, content |-> t] : t \in Texts}

\* ----------------------------------------------------------------- state
VARIABLES
    sentences,          \* self.sentences
    all_words,          \* self.all_words
    unique_words,       \* self.unique_words
    word_occurrence,    \* self.word_occurrence
    all_bigrams,        \* self.all_bigrams
    unique_bigrams,     \* self.unique_bigrams
    bigram_occurrence,  \* self.bigram_occurrence
    denominator_cache,  \* self._denominator_cache
    unigram_memo,       \* the lru_cache of get_unigram_prob_smooth
    bigram_memo,        \* the lru_cache of get_bigram_prob_smooth
    filename,           \* self.filename
    status_text,        \* self.status_text
    run_button,         \* the state option of the ANALYZE button
    calls,              \* the calls made so far, in order: name, notice and,
                        \* for an analysis, the text it processed
    result              \* the last call: name, argument, outcome

data == <<sentences, all_words, unique_words, word_occurrence, all_bigrams,
          unique_bigrams, bigram_occurrence>>
memos == <<unigram_memo, bigram_memo>>
vars == <<sentences, all_words, unique_words, word_occurrence, all_bigrams,
          unique_bigrams, bigram_occurrence, denominator_cache, unigram_memo,
          bigram_memo, filename, status_text, run_button, calls, result>>

\* the analyzer's data as one record
Model ==
    [sentences |-> sentences,
     all_words |-> all_words,
     unique_words |-> unique_words,
     word_occurrence |-> word_occurrence,
     all_bigrams |-> all_bigrams,
     unique_bigrams |-> unique_bigrams,
     bigram_occurrence |-> bigram_occurrence,
     denominator_cache |-> denominator_cache]

\* assignments that extend the sentences and the token stream instead of
\* replacing them: the repeated analysis of C11 tells it from SetData
SetDataAccumulated(m) ==
    /\ sentences' = sentences \o m.sentences
    /\ all_words' = all_words \o m.all_words
    /\ unique_words' = m.unique_words
    /\ word_occurrence' = m.word_occurrence
    /\ all_bigrams' = m.all_bigrams
    /\ unique_bigrams' = m.unique_bigrams
    /\ bigram_occurrence' = m.bigram_occurrence

\* the assignments of m's fields to the data attributes
SetData(m) ==
    /\ sentences' = m.sentences
    /\ all_words' = m.all_words
    /\ unique_words' = m.unique_words
    /\ word_occurrence' = m.word_occurrence
    /\ all_bigrams' = m.all_bigrams
    /\ unique_bigrams' = m.unique_bigrams
    /\ bigram_occurrence' = m.bigram_occurrence

\* a call that returns None; key is the word, bigram or sentence a query is
\* made for, <<>> for the other calls
Void(op, key) ==
    [op |-> op, key |-> key, out |-> Returned(IntRat(0)), trace |-> <<>>, note |-> "",
     text |-> <<>>, button |-> ""]

\* a call that returns or raises out; note is what it printed
Answer(op, key, out, note) ==
    [op |-> op, key |-> key, out |-> out, trace |-> <<>>, note |-> note,
     text |-> <<>>, button |-> ""]

\* an analysis, which returns None and tells the user how it ended:
\* "refused" (no file selected, or not a .txt file dropped: an error
\* dialog and nothing else), "failed" (the error dialog and the status
\* "Analysis failed") or "completed" (the status "Analysis completed")
\* text is the text handed to process_text, <<>> when the analysis did not
\* get that far; button is the state the ANALYZE button had meanwhile
Analysis(op, note, text, button) ==
    [op |-> op, key |-> <<>>, out |-> Returned(IntRat(0)), trace |-> <<>>, note |-> note,
     text |-> text, button |-> button]

\* a run is MaxOps calls long
CanCall == Len(calls) < MaxOps

\* the call c is recorded
Call(c) ==
    /\ calls' = Append(calls, [op |-> c.op, note |-> c.note, text |-> c.text])
    /\ result' = c

\* the data clear_data leaves: the seven collections empty, the denominators
\* as they were
Cleared(m) ==
    [sentences |-> <<>>,
     all_words |-> <<>>,
     unique_words |-> {},
     word_occurrence |-> EmptyTable,
     all_bigrams |-> <<>>,
     unique_bigrams |-> {},
     bigram_occurrence |-> EmptyTable,
     denominator_cache |-> m.denominator_cache]

\* the data calculate_statistics leaves
Statistics(m) ==
    [m EXCEPT !.word_occurrence = Counter(m.all_words),
              !.bigram_occurrence = Counter(m.all_bigrams),
              !.denominator_cache = Denominators(m.all_words, m.unique_words)]

\* the text analyze_file hands to process_text: stripped, lower-cased, line
\* continuations collapsed
Normalize(content) == CollapseNewlines(Lower(Strip(content)))

\* process_text and analyze_file tabulated once over the texts explored: the
\* data process_text(t) leaves, whether analyze_file rejects the content t as
\* empty, and the data its process_text and calculate_statistics leave for t
Processed == [t \in Texts |-> ProcessText(t)]
Rejected == [t \in Texts |-> Strip(Normalize(t)) = <<>>]
Analysed == [t \in Texts |-> Statistics(ProcessText(Normalize(t)))]

Init ==
    /\ sentences = <<>>
    /\ all_words = <<>>
    /\ unique_words = {}
    /\ word_occurrence = EmptyTable
    /\ all_bigrams = <<>>
    /\ unique_bigrams = {}
    /\ bigram_occurrence = EmptyTable
    /\ denominator_cache = EmptyTable
    /\ unigram_memo = EmptyTable
    /\ bigram_memo = EmptyTable
    /\ filename = ""
    /\ status_text = ""
    /\ run_button = "normal"
    /\ calls = <<>>
    /\ result = Void("__init__", <<>>)

\* select_file: the path chosen in the dialog, "" when it is cancelled
select_file ==
    /\ CanCall
    /\ \E path \in Paths \cup {""} : filename' = path
    /\ Call(Void("select_file", <<>>))
    /\ UNCHANGED <<data, denominator_cache, memos, status_text, run_button>>

\* clear_data
clear_data ==
    /\ CanCall
    /\ SetData(Cleared(Model))
    /\ Call(Void("clear_data", <<>>))
    /\ UNCHANGED <<denominator_cache, memos, filename, status_text, run_button>>

\* process_text(text), process_bigrams included
process_text ==
    /\ CanCall
    /\ \E text \in Texts :
        /\ SetData(Processed[text])
        /\ denominator_cache' = Processed[text].denominator_cache
        /\ Call(Void("process_text", <<>>))
    /\ UNCHANGED <<memos, filename, status_text, run_button>>

\* calculate_statistics
calculate_statistics ==
    /\ CanCall
    /\ SetData(Statistics(Model))
    /\ denominator_cache' = Statistics(Model).denominator_cache
    /\ Call(Void("calculate_statistics", <<>>))
    /\ UNCHANGED <<memos, filename, status_text, run_button>>

\* update_all_tabs: the tables and the matrix are filled through the
\* memoized queries
update_all_tabs ==
    /\ CanCall
    /\ unigram_memo' = Tab5Memo(Model, unigram_memo)
    /\ bigram_memo' = Tab67Memo(Model, bigram_memo)
    /\ Call(Void("update_all_tabs", <<>>))
    /\ UNCHANGED <<data, denominator_cache, filename, status_text, run_button>>

\* analyze_file once a path is selected: the data is cleared, then the file
\* is read, normalized, processed and shown; any exception ends the analysis
\* with the data left cleared.  button is the state of the ANALYZE button
\* while this runs.
AnalyzeSelected(op, file, button) ==
    IF ~file.exists \/ ~file.readable \/ Rejected[file.content]
    THEN /\ SetData(Cleared(Model))
         /\ status_text' = "Analysis failed"
         /\ Call(Analysis(op, "failed", <<>>, button))
         /\ UNCHANGED <<denominator_cache, memos>>
    ELSE LET m == Analysed[file.content]
         IN  /\ SetData(m)
             /\ denominator_cache' = m.denominator_cache
             /\ unigram_memo' = Tab5Memo(m, unigram_memo)
             /\ bigram_memo' = Tab67Memo(m, bigram_memo)
             /\ status_text' = "Analysis completed"
             /\ Call(Analysis(op, "completed", Normalize(file.content), button))

\* the body of analyze_file: without a selected path nothing is touched
AnalyzeFile(op, path, button) ==
    IF path = ""
    THEN /\ Call(Analysis(op, "refused", <<>>, button))
         /\ UNCHANGED <<data, denominator_cache, memos, status_text>>
    ELSE \E file \in Files : AnalyzeSelected(op, file, button)

\* analyze_file
analyze_file ==
    /\ CanCall
    /\ AnalyzeFile("analyze_file", filename, run_button)
    /\ UNCHANGED <<filename, run_button>>

\* analyze_button_click, the command of the ANALYZE button and of Ctrl+R:
\* the button is disabled, analyze_file runs, the button is restored
analyze_button_click ==
    /\ CanCall
    /\ AnalyzeFile("analyze_button_click", filename, "disabled")
    /\ run_button' = "normal"
    /\ UNCHANGED filename

\* handle_drop: a dropped .txt path is selected and analysed, any other
\* path is refused; the ANALYZE button is not touched
handle_drop ==
    /\ CanCall
    /\ \E path \in Paths :
        IF EndsWithTxt(path)
        THEN /\ filename' = path
             /\ AnalyzeFile("handle_drop", path, run_button)
        ELSE /\ Call(Analysis("handle_drop", "refused", <<>>, run_button))
             /\ UNCHANGED <<data, denominator_cache, memos, filename, status_text>>
    /\ UNCHANGED run_button

\* get_unigram_prob(word)
get_unigram_prob ==
    /\ CanCall
    /\ \E word \in QueryWords :
        Call(Answer("get_unigram_prob", <<word>>, UnigramProb(Model, word), ""))
    /\ UNCHANGED <<data, denominator_cache, memos, filename, status_text, run_button>>

\* get_bigram_prob(bigram)
get_bigram_prob ==
    /\ CanCall
    /\ \E bigram \in QueryBigrams :
        Call(Answer("get_bigram_prob", bigram, BigramProb(Model, bigram), ""))
    /\ UNCHANGED <<data, denominator_cache, memos, filename, status_text, run_button>>

\* get_unigram_prob_smooth(word)
get_unigram_prob_smooth ==
    /\ CanCall
    /\ \E word \in QueryWords :
        LET body == UnigramProbSmoothBody(Model, word)
        IN  /\ Call(Answer("get_unigram_prob_smooth", <<word>>,
                             MemoCall(unigram_memo, word, body), ""))
            /\ unigram_memo' = MemoStore(unigram_memo, word, body)
    /\ UNCHANGED <<data, denominator_cache, bigram_memo, filename, status_text, run_button>>

\* get_bigram_prob_smooth(bigram)
get_bigram_prob_smooth ==
    /\ CanCall
    /\ \E bigram \in QueryBigrams :
        LET body == BigramProbSmoothBody(Model, bigram)
        IN  /\ Call(Answer("get_bigram_prob_smooth", bigram,
                             MemoCall(bigram_memo, bigram, body),
                             BigramProbSmoothPrinted(Model, bigram_memo, <<bigram>>)))
            /\ bigram_memo' = MemoStore(bigram_memo, bigram, body)
    /\ UNCHANGED <<data, denominator_cache, unigram_memo, filename, status_text, run_button>>

\* find_prob_of_sentence for the sentence typed into the entry
find_prob_of_sentence ==
    /\ CanCall
    /\ \E string \in QueryStrings :
        LET s == Score(Model, bigram_memo, SentenceBigrams(string), IntRat(1), <<>>)
        IN  /\ Call([op |-> "find_prob_of_sentence", key |-> string,
                       out |-> s.out, trace |-> s.trace,
                       note |-> BigramProbSmoothPrinted(Model, bigram_memo,
                                                        SentenceBigrams(string)),
                       text |-> <<>>, button |-> ""])
            /\ bigram_memo' = s.memo
    /\ UNCHANGED <<data, denominator_cache, unigram_memo, filename, status_text, run_button>>

Next ==
    \/ select_file
    \/ clear_data
    \/ process_text
    \/ calculate_statistics
    \/ update_all_tabs
    \/ analyze_file
    \/ analyze_button_click
    \/ handle_drop
    \/ get_unigram_prob
    \/ get_bigram_prob
    \/ get_unigram_prob_smooth
    \/ get_bigram_prob_smooth
    \/ find_prob_of_sentence

Spec == Init /\ [][Next]_vars

\* ------------------------------------------------------ reading the calls
Queries ==
    {"get_unigram_prob", "get_bigram_prob", "get_unigram_prob_smooth",
     "get_bigram_prob_smooth", "find_prob_of_sentence"}

Analyses == {"analyze_file", "analyze_button_click", "handle_drop"}

\* call i of the run was an analysis that installed a corpus
Completed(i) == calls[i].op \in Analyses /\ calls[i].note = "completed"

\* every call after call i is a probability query
OnlyQueriesAfter(i) == \A k \in (i + 1)..Len(calls) : calls[k].op \in Queries

\* the last call was a probability query
Queried == calls # <<>> /\ result.op \in Queries

\* the value the current tables and denominators define for the key of the
\* last smoothed query
DefinedByCurrentCorpus ==
    IF result.op = "get_unigram_prob_smooth"
    THEN UnigramProbSmoothBody(Model, result.key[1])
    ELSE BigramProbSmoothBody(Model, result.key)

\* the analyzer as its constructor leaves it
Constructed ==
    [sentences |-> <<>>,
     all_words |-> <<>>,
     unique_words |-> {},
     word_occurrence |-> EmptyTable,
     all_bigrams |-> <<>>,
     unique_bigrams |-> {},
     bigram_occurrence |-> EmptyTable,
     denominator_cache |-> EmptyTable]

\* what the last query gives on an analyzer that never analysed anything
NeverAnalysed ==
    CASE result.op = "get_unigram_prob" -> UnigramProb(Constructed, result.key[1])
      [] result.op = "get_bigram_prob" -> BigramProb(Constructed, result.key)
      [] result.op = "get_unigram_prob_smooth" ->
             UnigramProbSmoothBody(Constructed, result.key[1])
      [] result.op = "get_bigram_prob_smooth" ->
             BigramProbSmoothBody(Constructed, result.key)
      [] result.op = "find_prob_of_sentence" ->
             Score(Constructed, EmptyTable, SentenceBigrams(result.key), IntRat(1), <<>>).out

\* ---------------------------------------------------------------- claims

\* C1: after an analysis of a corpus A, any probability queries, and then an
\* analysis of a corpus B, every smoothed unigram or bigram query returns the
\* value that B's frequency tables and B's denominators define; none returns
\* a value computed from A.
C1_QueriesAnswerFromCurrentCorpus ==
    (/\ Queried
     /\ result.op \in {"get_unigram_prob_smooth", "get_bigram_prob_smooth"}
     /\ \E i, j \in 1..Len(calls) :
            /\ i < j
            /\ Completed(i)
            /\ Completed(j)
            /\ \A k \in (i + 1)..(j - 1) : calls[k].op \in Queries
            /\ OnlyQueriesAfter(j))
    => result.out = DefinedByCurrentCorpus

\* C2: a probability query issued after clear_data and before the next
\* analysis never answers with a value derived from the corpus analysed
\* before the clear: it fails with an error, or at least gives what an
\* analyzer that never analysed anything gives (the claim asks for the
\* error in every case).
C2_NothingStaleAfterClear ==
    (/\ Queried
     /\ \E i, j \in 1..Len(calls) :
            /\ i < j
            /\ Completed(i)
            /\ calls[j].op = "clear_data"
            /\ OnlyQueriesAfter(j))
    => (~result.out.ok \/ result.out = NeverAnalysed)

\* C3: after clear_data, from any reachable state, the sentences, the token
\* stream, the vocabulary, both frequency tables and both memoized
\* smoothed-probability caches are empty.
C3_ClearEmptiesEverything ==
    (calls # <<>> /\ result.op = "clear_data")
    => /\ sentences = <<>>
       /\ all_words = <<>>
       /\ unique_words = {}
       /\ DOMAIN word_occurrence = {}
       /\ DOMAIN bigram_occurrence = {}
       /\ DOMAIN unigram_memo = {}
       /\ DOMAIN bigram_memo = {}

\* V, the vocabulary size, both boundary tokens included
VocabularySize == Cardinality(unique_words)

\* the value a smoothed bigram query for b returns in the current state
BigramQueryValue(b) == MemoCall(bigram_memo, b, BigramProbSmoothBody(Model, b))

\* the word tokens of sentence i, tokenized on its own
SentenceTokens(i) == Tokenize(sentences[i])

\* the number of word tokens of the first n sentences
RECURSIVE SentenceTokenCount(_)
SentenceTokenCount(n) ==
    IF n = 0 THEN 0 ELSE Len(SentenceTokens(n)) + SentenceTokenCount(n - 1)

\* the word tokens of the first n sentences, in order
RECURSIVE SentenceTokenStream(_)
SentenceTokenStream(n) ==
    IF n = 0 THEN <<>> ELSE SentenceTokenStream(n - 1) \o SentenceTokens(n)

\* C4: for every bigram (w1,w2) with count(w1,w2) > 0 in the analysed
\* corpus, smoothedBigram(w1,w2) = (count(w1,w2) + k) / (count(w1) + k(V-2))
\* with k = 1/2, that is (2 count(w1,w2) + 1) / (2 count(w1) + V - 2).
\* Stated for the corpora with at least one word (V # 2): for the two
\* boundary tokens alone k(V-2) is 0 and get_bigram_prob_smooth answers 0.
C4_SeenBigramFormula ==
    (/\ Queried
     /\ result.op = "get_bigram_prob_smooth"
     /\ result.key \in DOMAIN bigram_occurrence
     /\ bigram_occurrence[result.key] > 0
     /\ VocabularySize # 2)
    => result.out = Returned(Rat(2 * bigram_occurrence[result.key] + 1,
                                 2 * CountOf(word_occurrence, result.key[1])
                                     + VocabularySize - 2))

\* C5: in every reachable state, whatever was processed (a text without
\* word tokens or without sentences included) and for every bigram key,
\* smoothedBigram returns a finite number that is at least zero.
C5_SmoothedBigramNonNegative ==
    (Queried /\ result.op = "get_bigram_prob_smooth")
    => (result.out.ok /\ result.out.val[1] >= 0)

\* C6 as claimed: for every corpus accepted by process_text and every token
\* w, seen or unseen, smoothedUnigram(w) returns a strictly positive value.
C6_Original_PositiveForEveryText ==
    (/\ Queried
     /\ result.op = "get_unigram_prob_smooth"
     /\ \E i \in 1..Len(calls) : calls[i].op = "process_text" /\ OnlyQueriesAfter(i))
    => (result.out.ok /\ result.out.val[1] > 0)

\* C6 as amended: for every corpus accepted by process_text that has at
\* least one sentence and every token w, seen or unseen, smoothedUnigram(w)
\* returns a strictly positive value.
C6_SmoothedUnigramPositive ==
    (/\ Queried
     /\ result.op = "get_unigram_prob_smooth"
     /\ sentences # <<>>)
    => (result.out.ok /\ result.out.val[1] > 0)

\* C6 witness: a query for a token the processed corpus does not contain
C6_Witness ==
    /\ Len(calls) = 2
    /\ calls[1].op = "process_text"
    /\ result.op = "get_unigram_prob_smooth"
    /\ sentences # <<>>
    /\ result.key[1] \notin unique_words
    /\ CountOf(word_occurrence, result.key[1]) = 0

\* C7: for every context w1 that occurs in the corpus, a seen bigram
\* (w1,w2) and an unseen bigram (w1,w3): smoothedBigram(w1,w3) > 0 and
\* smoothedBigram(w1,w3) < smoothedBigram(w1,w2).  Stated for the corpora
\* with at least one word (V # 2), as C4 is.
C7_UnseenBelowSeen ==
    (/\ Queried
     /\ result.op = "get_bigram_prob_smooth"
     /\ Len(result.key) = 2
     /\ result.key[1] \in DOMAIN word_occurrence
     /\ result.key \notin DOMAIN bigram_occurrence
     /\ VocabularySize # 2)
    => /\ result.out.ok
       /\ result.out.val[1] > 0
       /\ \A b \in DOMAIN bigram_occurrence :
              b[1] = result.key[1]
              => /\ BigramQueryValue(b).ok
                 /\ RLess(result.out.val, BigramQueryValue(b).val)

\* C8: after process_text, all_words is the word tokens of all sentences in
\* order followed by 2 x sentenceCount boundary tokens as one suffix, so
\* |all_words| = sum of the sentences' token counts + 2 x sentenceCount, and
\* with at least one sentence the vocabulary is exactly the distinct word
\* tokens together with <s> and </s>.
C8_TokenStreamShape ==
    LET n == Len(sentences)
        w == Len(all_words) - 2 * n
    IN  /\ Len(all_words) = SentenceTokenCount(n) + 2 * n
        /\ SubSeq(all_words, 1, w) = SentenceTokenStream(n)
        /\ \A i \in 1..(2 * n) :
               all_words[w + i] = (IF i % 2 = 1 THEN "<s>" ELSE "</s>")
        /\ n > 0 => unique_words = Range(SentenceTokenStream(n)) \cup {"<s>", "</s>"}

\* C8 witness: process_text has left two sentences, one of them with a word
C8_Witness ==
    /\ calls # <<>>
    /\ result.op = "process_text"
    /\ Len(sentences) = 2
    /\ Len(all_words) = 5

\* C9: after analysing any corpus, the unigram counts sum to |all_words| and
\* the bigram counts sum to the size of the bigram stream, the consecutive
\* pairs of each sentence padded with one <s> and one </s>: one pair more
\* than the sentence has tokens.
C9_CountsSumToStreams ==
    /\ Total(word_occurrence) = Len(all_words)
    /\ Total(bigram_occurrence) = SentenceTokenCount(Len(sentences)) + Len(sentences)
    /\ Len(all_bigrams) = SentenceTokenCount(Len(sentences)) + Len(sentences)

\* C9 witness: an analysed corpus in which a token and a bigram repeat
C9_Witness ==
    /\ calls # <<>>
    /\ result.op \in Analyses \cup {"process_text", "calculate_statistics"}
    /\ \E w \in DOMAIN word_occurrence : word_occurrence[w] = 2
    /\ \E b \in DOMAIN bigram_occurrence : bigram_occurrence[b] = 2

\* the product of the probabilities of a trace, in order
RECURSIVE TraceProduct(_)
TraceProduct(tr) ==
    IF tr = <<>> THEN IntRat(1) ELSE RMul(TraceProduct(SubSeq(tr, 1, Len(tr) - 1)), tr[Len(tr)][2])

\* C10: scoring a query string with n word tokens t1..tn gives the n + 1
\* consecutive bigrams of <s>, t1..tn, </s>; the trace lists them in order,
\* each with the smoothedBigram the current model defines for it, and the
\* likelihood is the product of these; for n = 0 that is the single bigram
\* (<s>, </s>) and its smoothedBigram, not an error.
C10_ScoreIsProductOverCurrentModel ==
    (Queried /\ result.op = "find_prob_of_sentence")
    => LET t == Tokenize(Lower(result.key))
           n == Len(t)
           padded == [i \in 1..(n + 2) |->
                         IF i = 1 THEN "<s>" ELSE IF i = n + 2 THEN "</s>" ELSE t[i - 1]]
       IN  /\ result.out.ok
           /\ Len(result.trace) = n + 1
           /\ \A i \in 1..(n + 1) :
                  /\ result.trace[i][1] = <<padded[i], padded[i + 1]>>
                  /\ Returned(result.trace[i][2])
                         = BigramProbSmoothBody(Model, <<padded[i], padded[i + 1]>>)
           /\ result.out.val = TraceProduct(result.trace)

\* the value a smoothed unigram query for w returns in the current state
UnigramQueryValue(w) == MemoCall(unigram_memo, w, UnigramProbSmoothBody(Model, w))

C12_NoWordTokensIsAnError ==
    (/\ calls # <<>>
     /\ result.op \in Analyses
     /\ result.note \in {"completed", "failed"}
     /\ Tokenize(result.text) = <<>>)
    => /\ result.note = "failed"
       /\ sentences = <<>>
       /\ all_words = <<>>
       /\ unique_words = {}

\* C13: an analysis refused before clear_data ran (no file selected) leaves
\* the data, the denominators and the memoized probabilities unchanged; an
\* analysis that failed after clear_data ran (missing, unreadable or empty
\* file) leaves all of them empty.
C13_FailureFrame ==
    [][(calls' # calls /\ result'.op \in Analyses)
       => /\ result'.note = "refused"
              => UNCHANGED <<data, denominator_cache, memos>>
          /\ result'.note = "failed"
              => /\ Model' = Constructed
                 /\ DOMAIN unigram_memo' = {}
                 /\ DOMAIN bigram_memo' = {}]_vars

\* C14: every entry point that starts an analysis (the ANALYZE button and
\* Ctrl+R through analyze_button_click, a file drop through handle_drop)
\* has the ANALYZE button disabled while the analysis runs and enabled
\* again when it has ended, completed or failed.
C14_TriggerDisabledMeanwhile ==
    (/\ calls # <<>>
     /\ result.op \in {"analyze_button_click", "handle_drop"}
     /\ result.note \in {"completed", "failed"})
    => (result.button = "disabled" /\ run_button = "normal")

\* C15: a raw or smoothed bigram query with a key of arity 0, 1 or 3 ends
\* in an error and returns no number.
C15_InvalidKeyIsAnError ==
    (/\ Queried
     /\ result.op \in {"get_bigram_prob", "get_bigram_prob_smooth"}
     /\ Len(result.key) # 2)
    => ~result.out.ok

\* C16: in every state, before the first analysis and after clear_data
\* included, get_bigram_prob((w1,w2)) returns 0 when the unigram table
\* counts no w1 and count(w1,w2) / count(w1) otherwise.
C16_RawBigram ==
    (/\ Queried
     /\ result.op = "get_bigram_prob"
     /\ Len(result.key) = 2)
    => result.out =
           (IF CountOf(word_occurrence, result.key[1]) = 0
            THEN Returned(IntRat(0))
            ELSE Returned(Rat(CountOf(bigram_occurrence, result.key),
                              CountOf(word_occurrence, result.key[1]))))

\* C16 witness: a raw bigram query for a seen bigram whose context occurs
\* twice
C16_Witness ==
    /\ Queried
    /\ result.op = "get_bigram_prob"
    /\ Len(result.key) = 2
    /\ CountOf(word_occurrence, result.key[1]) = 2
    /\ CountOf(bigram_occurrence, result.key) = 1
    /\ result.out = Returned(<<1, 2>>)

\* C17: in every reachable state, before the first analysis and after
\* clear_data included, no smoothed bigram query takes the except branch
\* that answers a missing denominator with the constant 1.
C17_FallbackNeverTaken ==
    (Queried /\ result.op = "get_bigram_prob_smooth")
    => result.note # "KeyError in get_bigram_prob_smooth"

\* C18: after any sequence of analyses and clear_data calls with a
\* completed analysis among them, the denominators are those of the current
\* corpus, unigram = N + k V and bigram_base = k (V - 2) for N = |all_words|
\* and V = |unique_words|; and calculate_statistics right after process_text
\* leaves the denominators process_text computed.
C18_DenominatorsFollowCorpus ==
    /\ (/\ \E i \in 1..Len(calls) : Completed(i)
        /\ \A i \in 1..Len(calls) : calls[i].op \in Analyses \cup {"clear_data"})
       => denominator_cache = Denominators(all_words, unique_words)
    /\ (/\ Len(calls) >= 2
        /\ calls[Len(calls)].op = "calculate_statistics"
        /\ calls[Len(calls) - 1].op = "process_text")
       => denominator_cache = Denominators(all_words, unique_words)

\* the bigram-table keys with left token w
WithContext(w) == {b \in DOMAIN bigram_occurrence : b[1] = w}

\* C19: every bigram-table key has both its tokens in the unigram table with
\* a positive count; for every token w1 other than </s> the counts of the
\* bigrams (w1, .) sum to the unigram count of w1, so no raw bigram
\* probability exceeds 1; </s> is counted once per sentence and is never a
\* left context.
C19_StreamsAgreePerContext ==
    /\ \A b \in DOMAIN bigram_occurrence :
           /\ CountOf(word_occurrence, b[1]) > 0
           /\ CountOf(word_occurrence, b[2]) > 0
           /\ b[1] # "</s>"
           /\ bigram_occurrence[b] <= CountOf(word_occurrence, b[1])
    /\ \A w \in DOMAIN word_occurrence \ {"</s>"} :
           SumOver(bigram_occurrence, WithContext(w)) = word_occurrence[w]
    /\ CountOf(word_occurrence, "</s>") = Len(sentences)

\* C19 witness: a completed analysis of two sentences, one of them with a
\* word
C19_Witness ==
    /\ calls # <<>>
    /\ result.op \in Analyses
    /\ result.note = "completed"
    /\ Len(sentences) = 2
    /\ "a" \in unique_words

====
